---- MODULE Spec2Model ----
(***************************************************************************)
(* ServerGuard file hosting server (server.mjs, both the enhanced and the  *)
(* lightweight variant) as a state machine over the filesystem below       *)
(* __dirname: the upload directory, the static directory dist, the         *)
(* requests in flight and the last response sent; the directories that     *)
(* go missing or unreadable under it (SpecEnv); and the App component of   *)
(* the page with its effects and intervals (SpecApp).                      *)
(*                                                                         *)
(* Strings (file names, ids) are sequences of code points.  Paths are      *)
(* sequences of segments relative to __dirname.                            *)
(***************************************************************************)
EXTENDS Integers, Sequences, FiniteSets, TLC

\* ------------------------------------------------------------ characters

\* The code point of each character the model writes names with.
CodeOf ==
  [c \in {"a", "b", "c", "d", "e", "f", "g", "h", "i", "j", "l", "m", "n",
          "o", "p", "s", "t", "u", "v", "w", "x", ".", "_", "/", "=", "+", "e'",
          "zh", "G", "N", "P"} |->
     CASE c = "a" -> 97  [] c = "b" -> 98  [] c = "c" -> 99  [] c = "d" -> 100
       [] c = "e" -> 101 [] c = "f" -> 102 [] c = "h" -> 104 [] c = "j" -> 106
       [] c = "m" -> 109 [] c = "v" -> 118 [] c = "w" -> 119 [] c = "x" -> 120
       [] c = "g" -> 103 [] c = "i" -> 105 [] c = "l" -> 108 [] c = "n" -> 110
       [] c = "o" -> 111 [] c = "p" -> 112 [] c = "s" -> 115 [] c = "t" -> 116
       [] c = "u" -> 117 [] c = "." -> 46  [] c = "_" -> 95  [] c = "/" -> 47
       [] c = "=" -> 61  [] c = "+" -> 43  [] c = "e'" -> 233
       [] c = "zh" -> 20013 [] c = "G" -> 71 [] c = "N" -> 78 [] c = "P" -> 80]

\* A string literal: the code points of a sequence of characters.
Str(s) == [i \in DOMAIN s |-> CodeOf[s[i]]]

Slash == CodeOf["/"]
Dot == CodeOf["."]

\* String.prototype.startsWith
StartsWith(s, prefix) ==
  /\ Len(s) >= Len(prefix)
  /\ SubSeq(s, 1, Len(prefix)) = prefix

\* Number -> decimal digits, as template literals print Date.now().
RECURSIVE Digits(_)
Digits(n) ==
  IF n < 10 THEN <<48 + n>> ELSE Digits(n \div 10) \o <<48 + (n % 10)>>

\* ------------------------------------------------- Buffer: utf8, latin1

\* Buffer.from(string) / Buffer.from(string, 'utf8'): the UTF-8 bytes of a
\* string of code points (a lone surrogate is written as U+FFFD).
Utf8Of(cp) ==
  LET c == IF cp >= 55296 /\ cp <= 57343 THEN 65533 ELSE cp IN
  IF c < 128 THEN <<c>>
  ELSE IF c < 2048 THEN <<192 + (c \div 64), 128 + (c % 64)>>
  ELSE <<224 + (c \div 4096), 128 + ((c \div 64) % 64), 128 + (c % 64)>>

RECURSIVE Utf8Encode(_)
Utf8Encode(s) ==
  IF s = <<>> THEN <<>> ELSE Utf8Of(Head(s)) \o Utf8Encode(Tail(s))

IsCont(b) == b >= 128 /\ b < 192

\* buffer.toString('utf8'): invalid bytes decode to U+FFFD.
RECURSIVE Utf8Decode(_)
Utf8Decode(b) ==
  IF b = <<>> THEN <<>>
  ELSE IF b[1] < 128 THEN <<b[1]>> \o Utf8Decode(Tail(b))
  ELSE IF b[1] >= 194 /\ b[1] < 224 /\ Len(b) >= 2 /\ IsCont(b[2])
    THEN <<(b[1] - 192) * 64 + (b[2] - 128)>> \o Utf8Decode(SubSeq(b, 3, Len(b)))
  ELSE IF /\ b[1] >= 224 /\ b[1] < 240 /\ Len(b) >= 3 /\ IsCont(b[2]) /\ IsCont(b[3])
          /\ (b[1] - 224) * 4096 + (b[2] - 128) * 64 + (b[3] - 128) >= 2048
    THEN <<(b[1] - 224) * 4096 + (b[2] - 128) * 64 + (b[3] - 128)>>
           \o Utf8Decode(SubSeq(b, 4, Len(b)))
  ELSE <<65533>> \o Utf8Decode(Tail(b))

\* Buffer.from(string, 'latin1'): each code unit's low byte.
Latin1Encode(s) == [i \in DOMAIN s |-> s[i] % 256]

\* The multipart parser hands the declared file name over as latin1: one
\* character per byte of the UTF-8 name the client sent.
Latin1Decode(b) == b

\* ----------------------------------------------------- Buffer: base64

\* The character of a 6-bit value in the base64 alphabet.
B64Char(v) ==
  IF v < 26 THEN 65 + v
  ELSE IF v < 52 THEN 97 + (v - 26)
  ELSE IF v < 62 THEN 48 + (v - 52)
  ELSE IF v = 62 THEN 43 ELSE 47

\* The 6-bit value of a character, -1 when it is not of the alphabet
\* (the URL-safe '-' and '_' are accepted by the decoder).
B64Val(c) ==
  IF c >= 65 /\ c <= 90 THEN c - 65
  ELSE IF c >= 97 /\ c <= 122 THEN c - 97 + 26
  ELSE IF c >= 48 /\ c <= 57 THEN c - 48 + 52
  ELSE IF c = 43 \/ c = 45 THEN 62
  ELSE IF c = 47 \/ c = 95 THEN 63
  ELSE -1

\* buffer.toString('base64')
RECURSIVE Base64Encode(_)
Base64Encode(b) ==
  IF b = <<>> THEN <<>>
  ELSE IF Len(b) = 1 THEN
    <<B64Char(b[1] \div 4), B64Char((b[1] % 4) * 16), 61, 61>>
  ELSE IF Len(b) = 2 THEN
    <<B64Char(b[1] \div 4), B64Char((b[1] % 4) * 16 + (b[2] \div 16)),
      B64Char((b[2] % 16) * 4), 61>>
  ELSE
    <<B64Char(b[1] \div 4), B64Char((b[1] % 4) * 16 + (b[2] \div 16)),
      B64Char((b[2] % 16) * 4 + (b[3] \div 64)), B64Char(b[3] % 64)>>
      \o Base64Encode(SubSeq(b, 4, Len(b)))

\* The sextets of a base64 string: decoding ends at the first '=', and a
\* character outside the alphabet is skipped.
RECURSIVE Sextets(_)
Sextets(s) ==
  IF s = <<>> \/ Head(s) = 61 THEN <<>>
  ELSE IF B64Val(Head(s)) < 0 THEN Sextets(Tail(s))
  ELSE <<B64Val(Head(s))>> \o Sextets(Tail(s))

RECURSIVE SextetsToBytes(_)
SextetsToBytes(v) ==
  IF Len(v) < 2 THEN <<>>
  ELSE IF Len(v) = 2 THEN <<v[1] * 4 + (v[2] \div 16)>>
  ELSE IF Len(v) = 3 THEN
    <<v[1] * 4 + (v[2] \div 16), (v[2] % 16) * 16 + (v[3] \div 4)>>
  ELSE
    <<v[1] * 4 + (v[2] \div 16), (v[2] % 16) * 16 + (v[3] \div 4),
      (v[3] % 4) * 64 + v[4]>> \o SextetsToBytes(SubSeq(v, 5, Len(v)))

\* Buffer.from(id, 'base64')
Base64Decode(s) == SextetsToBytes(Sextets(s))

\* The id, were the name's bytes taken as latin1.
IdOfLatin1(filename) == Base64Encode(Latin1Encode(filename))

\* Buffer.from(filename).toString('base64'): the id of a file name.
IdOf(filename) == Base64Encode(Utf8Encode(filename))

\* Buffer.from(id, 'base64').toString('utf8'): the file name of an id.
NameOfId(id) == Utf8Decode(Base64Decode(id))

\* -------------------------------------------------------------- path

\* A string split at '/'.
RECURSIVE SplitSlash(_, _)
SplitSlash(s, cur) ==
  IF s = <<>> THEN <<cur>>
  ELSE IF Head(s) = Slash THEN <<cur>> \o SplitSlash(Tail(s), <<>>)
  ELSE SplitSlash(Tail(s), Append(cur, Head(s)))

\* path.normalize of segments below a base: '' and '.' vanish, '..' pops.
RECURSIVE NormalizeSegs(_, _)
NormalizeSegs(segs, acc) ==
  IF segs = <<>> THEN acc
  ELSE LET s == Head(segs) IN
    IF s = <<>> \/ s = <<Dot>> THEN NormalizeSegs(Tail(segs), acc)
    ELSE IF s = <<Dot, Dot>> THEN
      NormalizeSegs(Tail(segs),
                    IF acc = <<>> \/ acc[Len(acc)] = <<Dot, Dot>>
                      THEN Append(acc, s)
                      ELSE SubSeq(acc, 1, Len(acc) - 1))
    ELSE NormalizeSegs(Tail(segs), Append(acc, s))

\* path.join(dir, name), as a path relative to __dirname.
PathJoin(dir, name) == NormalizeSegs(SplitSlash(name, <<>>), dir)

\* The last '.' of a base name that starts an extension: not one at
\* position 1 (a dotfile has no extension); 0 when there is none.
ExtStart(s) ==
  LET dots == {i \in 2..Len(s) : s[i] = Dot} IN
  IF dots = {} THEN 0 ELSE CHOOSE i \in dots : \A j \in dots : j <= i

\* The part of a name after its last '/'.
LastSeg(s) == LET segs == SplitSlash(s, <<>>) IN segs[Len(segs)]

\* path.extname(name)
ExtName(name) ==
  LET b == LastSeg(name) IN
  IF ExtStart(b) = 0 THEN <<>> ELSE SubSeq(b, ExtStart(b), Len(b))

\* path.basename(name, ext)
BaseName(name, ext) ==
  LET b == LastSeg(name) IN
  IF ext # <<>> /\ Len(b) > Len(ext)
     /\ SubSeq(b, Len(b) - Len(ext) + 1, Len(b)) = ext
    THEN SubSeq(b, 1, Len(b) - Len(ext))
    ELSE b

\* ---------------------------------------------------------- constants

\* Bounds of the model.
MaxRequests == 2
MaxClock == 2
MaxInFlight == 2
MaxPings == 3
MaxUptime == 2

\* UPLOAD_DIR = __dirname/uploads and PUBLIC_DIR = __dirname/dist.
UPLOAD_DIR == <<Str(<<"u", "p", "l", "o", "a", "d", "s">>)>>
PUBLIC_DIR == <<Str(<<"d", "i", "s", "t">>)>>

\* A directory inside the upload directory, and one inside dist whose name
\* ends like an image's.
UploadSubDir == Append(UPLOAD_DIR, Str(<<"t", "m", "p">>))
PublicSubDir == Append(PUBLIC_DIR, Str(<<"x", ".", "s", "v", "g">>))

\* The marker 'public_' of a static file's id.
StaticMarker == Str(<<"p", "u", "b", "l", "i", "c", "_">>)

Variants == {"enhanced", "lightweight"}

\* limits.fileSize of each variant.
FileSizeLimit(v) == IF v = "enhanced" THEN 10 * 1024 * 1024 ELSE 5 * 1024 * 1024

\* ------------------------------------------------------ request inputs

PngExt == Str(<<".", "p", "n", "g">>)
NameA == Str(<<"a">>) \o PngExt
NameB == Str(<<"b">>) \o PngExt
NamePublicA == StaticMarker \o NameA
NameIndex == Str(<<"i", "n", "d", "e", "x", ".", "h", "t", "m", "l">>)
NameTraversal == Str(<<".", ".", "/", "d", "i", "s", "t", "/">>) \o NameA
\* Names with characters of two and of three UTF-8 bytes.
NameNotes == Str(<<"e'", "zh", ".", "t", "x", "t">>)
NameUnicode == Str(<<"e'", "zh">>) \o PngExt
NameUpper == Str(<<"e'", ".", "P", "N", "G">>)

\* File names a client declares in an upload.
DeclaredNames == {NameB, NamePublicA}

\* The names the ids of rename and delete requests decode to.
IdNames == {NameA, NameB, NamePublicA, NameTraversal}
Ids == {IdOf(n) : n \in IdNames}

\* The newName of a rename request; <<>> is a missing or empty one.
NewNames == {<<>>, NameA, NameB, NameTraversal, NameNotes}

\* The bytes of a file: which content, and how many bytes.
SmallFiles == {[tag |-> 1, len |-> 1], [tag |-> 2, len |-> 2]}
BigFile == [tag |-> 3, len |-> 10 * 1024 * 1024 + 1]

ImageSlash == Str(<<"i", "m", "a", "g", "e", "/">>)
MimePng == ImageSlash \o Str(<<"p", "n", "g">>)
MimeJpeg == ImageSlash \o Str(<<"j", "p", "e", "g">>)
MimeGif == ImageSlash \o Str(<<"g", "i", "f">>)
MimeWebp == ImageSlash \o Str(<<"w", "e", "b", "p">>)
MimeSvg == ImageSlash \o Str(<<"s", "v", "g", "+", "x", "m", "l">>)
MimeBmp == ImageSlash \o Str(<<"b", "m", "p">>)
MimeText == Str(<<"t", "e", "x", "t", "/", "p", "l", "a", "i", "n">>)

\* allowedTypes of the enhanced server's fileFilter.
AllowedTypes == {MimePng, MimeJpeg, MimeGif, MimeWebp, MimeSvg}

\* (mimetype, bytes) of the uploads the clients send.
UploadBodies ==
  {<<MimePng, b>> : b \in SmallFiles \cup {BigFile}}
    \cup {<<MimeBmp, [tag |-> 1, len |-> 1]>>,
          <<MimeText, [tag |-> 1, len |-> 1]>>}

\* (declared name, body) of the uploads the clients send.
UploadInputs ==
  (DeclaredNames \X UploadBodies) \cup {<<NameUnicode, <<MimePng, [tag |-> 1, len |-> 1]>>>>}

\* --------------------------------------------------------------- state

VARIABLES
  variant,   \* which server.mjs runs: "enhanced" or "lightweight"
  overlap,   \* whether clients send a request while an upload is in flight
  files,     \* the regular files below __dirname: path -> [bytes, mtime]
  clock,     \* Date.now()
  uploads,   \* the upload request of each connection, in multer's hands
  resp,      \* the last response sent
  nreq,      \* requests received, and changes of the directories, so far
  env,       \* the directories: whether each exists and can be read, and
             \* the symbolic links in them whose target is gone
  app        \* the App component of the page: its state, refs and timers

vars == <<variant, overlap, files, clock, uploads, resp, nreq, env, app>>

\* Both directories in place and readable, no dangling link.
EnvOk == [upload |-> "ok", dist |-> "ok", dangling |-> {}]

\* The directories that exist: __dirname, the upload and the static
\* directory unless missing, and the directory inside each.
Dirs ==
  {<<>>}
    \cup (IF env.upload # "missing" THEN {UPLOAD_DIR, UploadSubDir} ELSE {})
    \cup (IF env.dist # "missing" THEN {PUBLIC_DIR, PublicSubDir} ELSE {})

Slots == 1..MaxInFlight

IdleUpload ==
  [pc |-> "idle", declared |-> <<>>, mimetype |-> <<>>, bytes |-> [tag |-> 0, len |-> 0],
   filename |-> <<>>, now |-> 0, existed |-> FALSE]

\* What a response was the answer to.  existed (whether the upload directory
\* held a file of the declared name when the upload arrived) and now (the
\* clock at that time) are recorded for the properties only.
NoRequest == [id |-> <<>>, newName |-> <<>>, declared |-> <<>>, mimetype |-> <<>>,
              bytes |-> [tag |-> 0, len |-> 0], now |-> 0, existed |-> FALSE]

\* res.status(status).json({success, error, file, files}); json is FALSE for
\* the framework's own error page.
Response(n, op, status, json, error, file, list, req) ==
  [n |-> n, op |-> op, status |-> status, json |-> json,
   success |-> (json /\ error = ""), error |-> error,
   file |-> file, files |-> list, req |-> req]

\* ---------------------------------------------------------- filesystem

\* fs.existsSync(path)
ExistsSync(fs, p) == p \in DOMAIN fs \/ p \in Dirs

\* The write stream of the upload: the file is created or overwritten.
WriteFile(fs, p, rec) ==
  [q \in DOMAIN fs \cup {p} |-> IF q = p THEN rec ELSE fs[q]]

\* An unlink that were to remove nothing.
UnlinkSyncNothing(fs, p) == fs

\* fs.unlinkSync(path)
UnlinkSync(fs, p) == [q \in DOMAIN fs \ {p} |-> fs[q]]

\* A rename that were to copy, leaving the old path in place.
RenameSyncCopy(fs, old, new) ==
  [q \in DOMAIN fs \cup {new} |-> IF q = new THEN fs[old] ELSE fs[q]]

\* fs.renameSync(oldPath, newPath)
RenameSync(fs, old, new) ==
  [q \in (DOMAIN fs \ {old}) \cup {new} |-> IF q = new THEN fs[old] ELSE fs[q]]

\* The directory a path lies in.
DirName(p) == SubSeq(p, 1, Len(p) - 1)

\* fs.renameSync throws when the directory of newPath does not exist.
RenameThrows(old, new) == new = <<>> \/ DirName(new) \notin Dirs

\* fs.unlinkSync throws on a directory.
UnlinkThrows(p) == p \in Dirs

\* fs.readdirSync(dir): the names of the entries of a directory, which are
\* regular files, directories and symbolic links.
ReaddirSync(fs, dir) ==
  {p[Len(p)] : p \in {q \in DOMAIN fs \cup Dirs \cup env.dangling :
                         q # <<>> /\ DirName(q) = dir}}

\* fs.statSync(path) throws on a symbolic link whose target is gone.
StatThrows(p) == p \in env.dangling

\* fs.statSync(path).isFile()
IsFile(fs, p) == p \in DOMAIN fs

\* The entries of a directory that stats.isFile() keeps.
RegularFiles(fs, dir) ==
  {n \in ReaddirSync(fs, dir) : IsFile(fs, Append(dir, n))}

\* The files of a directory, by name.
DirContent(fs, dir) ==
  [n \in RegularFiles(fs, dir) |-> fs[Append(dir, n)]]

\* The enumerations of a set: the orders readdirSync may return it in.
Orders(S) ==
  {s \in [1..Cardinality(S) -> S] : \A i, j \in DOMAIN s : i # j => s[i] # s[j]}

\* --------------------------------------------------------------- init

\* The files at start: the deployed dist (two images and the page), as old
\* as the clock at start, and the upload an earlier run left in the upload
\* directory, older than dist.
InitFiles ==
  [p \in {Append(PUBLIC_DIR, NameA), Append(PUBLIC_DIR, NameIndex),
          Append(PUBLIC_DIR, NameUpper), Append(UPLOAD_DIR, NameB)} |->
     IF DirName(p) = PUBLIC_DIR
       THEN [bytes |-> [tag |-> 9, len |-> 9], mtime |-> 1]
       ELSE [bytes |-> [tag |-> 8, len |-> Len(p[2])], mtime |-> 0]]

\* The server has started and no request has arrived.
InitServer ==
  /\ variant \in Variants
  /\ clock = 1
  /\ uploads = [r \in Slots |-> IdleUpload]
  /\ resp = Response(0, "none", 0, FALSE, "", <<>>, <<>>, NoRequest)
  /\ nreq = 0

\* App before its first effect: useState(AppStatus.STOPPED), useRef(null)
\* (0 here), useState(0), useState(true); the effect of the mount is
\* pending, and under React.StrictMode its cleanup and a second run.
\*   status    the state of useState<AppStatus>
\*   closure   the status that the committed render's startServer closes over
\*   effects   the cleanups and effects of the last commit still to run
\*   intervals the intervals that setInterval made and clearInterval has
\*             not cleared: <<id, callback>>
\*   pings     the health requests sent; fetching: fetchFiles calls in flight
\*   assets    the state of useState<HostedAsset[]>([])
\*   handled   the number of the last response the page has handled
AppMounted(strict) ==
  [mounted |-> TRUE, status |-> "STOPPED", closure |-> "STOPPED",
   effects |-> IF strict THEN <<"effect", "cleanup", "effect">> ELSE <<"effect">>,
   keepAliveIntervalRef |-> 0, uptimeIntervalRef |-> 0,
   intervals |-> {}, nextId |-> 1,
   uptime |-> 0, pings |-> 0, fetching |-> 0, isLoading |-> TRUE,
   assets |-> <<>>, handled |-> 0]

\* No page is open.
NoApp == [AppMounted(FALSE) EXCEPT !.mounted = FALSE, !.effects = <<>>]

InitCommon ==
  /\ InitServer
  /\ files = InitFiles
  /\ env = EnvOk
  /\ app = NoApp

Init == InitCommon /\ overlap = FALSE
InitOverlap == InitCommon /\ overlap = TRUE

NameLink == Str(<<"l">>)

\* What may become of the directories while the server runs: a directory
\* missing (dist is removed by a build, the volume of the upload directory
\* is gone), a directory without read permission, a link whose target is
\* gone in the upload directory, in dist under an image's name, in dist
\* under another.
Environments ==
  ({[upload |-> u, dist |-> d, dangling |-> {}] :
      u \in {"ok", "missing"}, d \in {"ok", "missing"}} \ {EnvOk})
    \cup {[EnvOk EXCEPT !.upload = "unreadable"], [EnvOk EXCEPT !.dist = "unreadable"]}
    \cup {[EnvOk EXCEPT !.dangling = {l}] :
            l \in {Append(UPLOAD_DIR, NameLink), Append(PUBLIC_DIR, NameLink \o PngExt),
                   Append(PUBLIC_DIR, NameLink)}}

\* The files that are left when the directories become as in e.
FilesIn(fs, e) ==
  [p \in {q \in DOMAIN fs :
            e[IF DirName(q) = PUBLIC_DIR THEN "dist" ELSE "upload"] # "missing"} |->
     fs[p]]

\* A new request is received: the bound on requests, and a client that
\* waits for its response sends none while an upload is in flight.
Accepting ==
  /\ nreq < MaxRequests
  /\ overlap \/ \A r \in Slots : uploads[r].pc = "idle"

\* ------------------------------------------------------------- upload

\* fileFilter: the enhanced server's allow-list, the lightweight server's
\* mimetype.startsWith('image/').
FileFilter(v, mimetype) ==
  IF v = "enhanced" THEN mimetype \in AllowedTypes
  ELSE StartsWith(mimetype, ImageSlash)

\* storage.filename, were the timestamp appended after the extension.
FinalNameSuffixLast(fs, originalname, now) ==
  LET originalName == Utf8Decode(Latin1Encode(originalname)) IN
  IF ExistsSync(fs, PathJoin(UPLOAD_DIR, originalName))
    THEN originalName \o <<CodeOf["_"]>> \o Digits(now)
    ELSE originalName

\* storage.filename: the original name, or with a timestamp when a file of
\* that name exists.
FinalName(fs, originalname, now) ==
  LET originalName == Utf8Decode(Latin1Encode(originalname))
      ext == ExtName(originalName)
      baseName == BaseName(originalName, ext)
  IN IF ExistsSync(fs, PathJoin(UPLOAD_DIR, originalName))
       THEN baseName \o <<CodeOf["_"]>> \o Digits(now) \o ext
       ELSE originalName

\* The asset record of an upload-directory file.
UploadedRecord(filename, stats) ==
  [id |-> IdOf(filename), name |-> filename, size |-> stats.bytes.len,
   modifiedAt |-> stats.mtime, isUploaded |-> TRUE]

\* The asset record of a static file.
StaticRecord(filename, stats) ==
  [id |-> IdOf(StaticMarker \o filename), name |-> filename,
   size |-> stats.bytes.len, modifiedAt |-> stats.mtime, isUploaded |-> FALSE]

\* An error passed to next(): the enhanced server's error-handling
\* middleware, the framework's error page in the lightweight server.
ErrorResponse(v, n, op, code, message, req) ==
  IF v = "enhanced"
    THEN IF code = "LIMIT_FILE_SIZE"
           THEN Response(n, op, 400, TRUE, "FileTooLarge", <<>>, <<>>, req)
           ELSE Response(n, op, 500, TRUE, message, <<>>, <<>>, req)
    ELSE Response(n, op, 500, FALSE, message, <<>>, <<>>, req)

\* An exception thrown in a handler: the enhanced server's catch block,
\* the framework's error page in the lightweight server.
Thrown(v, n, op, message, req) ==
  Response(n, op, 500, v = "enhanced", message, <<>>, <<>>, req)

\* POST /api/files/upload without a file part.
UploadNoFile ==
  /\ Accepting
  /\ nreq' = nreq + 1
  /\ resp' = Response(resp.n + 1, "upload", 400, TRUE, "NoFileSelected", <<>>, <<>>,
                      NoRequest)
  /\ UNCHANGED <<variant, overlap, files, clock, uploads, env, app>>

\* POST /api/files/upload: the file part arrives; fileFilter, then
\* storage.filename, then the write stream is opened.
UploadBegin(r, declared, body) ==
  LET originalname == Latin1Decode(Utf8Encode(declared))
      req == [NoRequest EXCEPT !.declared = declared, !.mimetype = body[1],
                               !.bytes = body[2], !.now = clock,
                               !.existed = declared \in RegularFiles(files, UPLOAD_DIR)]
  IN
  /\ Accepting
  /\ uploads[r].pc = "idle"
  /\ \A q \in Slots : q < r => uploads[q].pc # "idle"
  /\ nreq' = nreq + 1
  /\ IF FileFilter(variant, body[1])
       THEN /\ uploads' = [uploads EXCEPT ![r] =
                 [pc |-> "writing", declared |-> declared, mimetype |-> body[1],
                  bytes |-> body[2],
                  filename |-> FinalName(files, originalname, clock),
                  now |-> clock,
                  existed |-> declared \in RegularFiles(files, UPLOAD_DIR)]]
            /\ UNCHANGED resp
       ELSE /\ resp' = ErrorResponse(variant, resp.n + 1, "upload", "", "OnlyImages", req)
            /\ UNCHANGED uploads
  /\ UNCHANGED <<variant, overlap, files, clock, env, app>>

UploadReq(u) ==
  [NoRequest EXCEPT !.declared = u.declared, !.mimetype = u.mimetype,
                    !.bytes = u.bytes, !.now = u.now, !.existed = u.existed]

\* The write stream finishes: the file is on disk, cut at limits.fileSize;
\* or it could not be opened, the directory being gone, and the error is
\* passed on.
UploadWrite(r) ==
  LET u == uploads[r]
      p == PathJoin(UPLOAD_DIR, u.filename)
      over == u.bytes.len > FileSizeLimit(variant)
      written == IF over THEN [u.bytes EXCEPT !.len = FileSizeLimit(variant)]
                 ELSE u.bytes
  IN
  /\ u.pc = "writing"
  /\ IF DirName(p) \in Dirs
       THEN /\ files' = WriteFile(files, p, [bytes |-> written, mtime |-> clock])
            /\ uploads' = [uploads EXCEPT ![r].pc = IF over THEN "aborting" ELSE "written"]
            /\ UNCHANGED resp
       ELSE /\ resp' = ErrorResponse(variant, resp.n + 1, "upload", "ENOENT",
                                     "WriteFailed", UploadReq(u))
            /\ uploads' = [uploads EXCEPT ![r] = IdleUpload]
            /\ UNCHANGED files
  /\ UNCHANGED <<variant, overlap, clock, nreq, env, app>>

\* LIMIT_FILE_SIZE: the parser removes the file it wrote and passes the error on.
UploadAbort(r) ==
  LET u == uploads[r] IN
  /\ u.pc = "aborting"
  /\ files' = UnlinkSync(files, PathJoin(UPLOAD_DIR, u.filename))
  /\ resp' = ErrorResponse(variant, resp.n + 1, "upload", "LIMIT_FILE_SIZE",
                           "FileTooLarge", UploadReq(u))
  /\ uploads' = [uploads EXCEPT ![r] = IdleUpload]
  /\ UNCHANGED <<variant, overlap, clock, nreq, env, app>>

\* The upload handler: statSync of the stored file and the asset record.
UploadRespond(r) ==
  LET u == uploads[r]
      p == PathJoin(UPLOAD_DIR, u.filename)
  IN
  /\ u.pc = "written"
  /\ resp' = IF p \in DOMAIN files
               THEN Response(resp.n + 1, "upload", 200, TRUE, "",
                             <<UploadedRecord(u.filename, files[p])>>, <<>>, UploadReq(u))
               ELSE Thrown(variant, resp.n + 1, "upload", "UploadFailed", UploadReq(u))
  /\ uploads' = [uploads EXCEPT ![r] = IdleUpload]
  /\ UNCHANGED <<variant, overlap, files, clock, nreq, env, app>>

\* ------------------------------------------------------------- rename

\* The guard, were it to compare the whole name with the marker.
IsStaticNameExact(name) == name = StaticMarker

\* oldName.startsWith('public_'): the guard of rename and delete.
IsStaticName(name) == StartsWith(name, StaticMarker)

\* PUT /api/files/:id/rename
Rename(id, newName) ==
  LET oldName == NameOfId(id)
      oldPath == PathJoin(UPLOAD_DIR, oldName)
      newPath == PathJoin(UPLOAD_DIR, newName)
      req == [NoRequest EXCEPT !.id = id, !.newName = newName]
      n == resp.n + 1
      Fail(status, error) == Response(n, "rename", status, TRUE, error, <<>>, <<>>, req)
  IN
  /\ Accepting
  /\ nreq' = nreq + 1
  /\ IF newName = <<>>
       THEN resp' = Fail(400, "NewNameRequired") /\ UNCHANGED files
     ELSE IF IsStaticName(oldName)
       THEN resp' = Fail(400, "StaticRename") /\ UNCHANGED files
     ELSE IF ~ExistsSync(files, oldPath)
       THEN resp' = Fail(404, "FileNotFound") /\ UNCHANGED files
     ELSE IF ExistsSync(files, newPath)
       THEN resp' = Fail(400, "TargetExists") /\ UNCHANGED files
     ELSE IF RenameThrows(oldPath, newPath)
       THEN resp' = Thrown(variant, n, "rename", "RenameFailed", req) /\ UNCHANGED files
     ELSE /\ files' = RenameSync(files, oldPath, newPath)
          /\ resp' = Response(n, "rename", 200, TRUE, "",
                              <<UploadedRecord(newName, files[oldPath])>>, <<>>, req)
  /\ UNCHANGED <<variant, overlap, clock, uploads, env, app>>

\* ------------------------------------------------------------- delete

\* DELETE /api/files/:id
Delete(id) ==
  LET filename == NameOfId(id)
      filePath == PathJoin(UPLOAD_DIR, filename)
      req == [NoRequest EXCEPT !.id = id]
      n == resp.n + 1
      Fail(status, error) == Response(n, "delete", status, TRUE, error, <<>>, <<>>, req)
  IN
  /\ Accepting
  /\ nreq' = nreq + 1
  /\ IF IsStaticName(filename)
       THEN resp' = Fail(400, "StaticDelete") /\ UNCHANGED files
     ELSE IF ~ExistsSync(files, filePath)
       THEN resp' = Fail(404, "FileNotFound") /\ UNCHANGED files
     ELSE IF UnlinkThrows(filePath)
       THEN resp' = Thrown(variant, n, "delete", "DeleteFailed", req) /\ UNCHANGED files
     ELSE /\ files' = UnlinkSync(files, filePath)
          /\ resp' = Response(n, "delete", 200, TRUE, "", <<>>, <<>>, req)
  /\ UNCHANGED <<variant, overlap, clock, uploads, env, app>>

\* --------------------------------------------------------------- list

\* String.prototype.toLowerCase, on the ASCII letters.
ToLower(s) == [i \in DOMAIN s |-> IF s[i] >= 65 /\ s[i] <= 90 THEN s[i] + 32 ELSE s[i]]

EndsWith(s, suffix) ==
  /\ Len(s) >= Len(suffix)
  /\ SubSeq(s, Len(s) - Len(suffix) + 1, Len(s)) = suffix

ImageExts ==
  {PngExt, Str(<<".", "j", "p", "g">>), Str(<<".", "j", "p", "e", "g">>),
   Str(<<".", "g", "i", "f">>), Str(<<".", "w", "e", "b", "p">>),
   Str(<<".", "s", "v", "g">>)}

\* The test, were the regular expression without its i flag.
IsImageNameCaseSensitive(filename) == \E e \in ImageExts : EndsWith(filename, e)

\* /\.(png|jpg|jpeg|gif|webp|svg)$/i.test(filename)
IsImageName(filename) == \E e \in ImageExts : EndsWith(ToLower(filename), e)

\* The comparator, were its operands swapped: ascending order.
CompareModifiedAtAscending(a, b) == a.modifiedAt - b.modifiedAt

\* The comparator of files.sort: negative when a is to come before b.
CompareModifiedAt(a, b) == b.modifiedAt - a.modifiedAt

\* One element inserted into a sorted list, after the elements it does not
\* precede: Array.prototype.sort is stable.
RECURSIVE InsertSorted(_, _)
InsertSorted(sorted, e) ==
  IF sorted = <<>> THEN <<e>>
  ELSE IF CompareModifiedAt(Head(sorted), e) <= 0
    THEN <<Head(sorted)>> \o InsertSorted(Tail(sorted), e)
    ELSE <<e>> \o sorted

\* files.sort((a, b) => new Date(b.modifiedAt) - new Date(a.modifiedAt))
RECURSIVE SortFiles(_)
SortFiles(list) ==
  IF list = <<>> THEN <<>>
  ELSE InsertSorted(SortFiles(SubSeq(list, 1, Len(list) - 1)), list[Len(list)])

\* The upload-directory scan, were it to build its ids as the static scan does.
UploadRecordsStaticId(fs, order) ==
  [i \in DOMAIN order |->
     [UploadedRecord(order[i], fs[Append(UPLOAD_DIR, order[i])])
        EXCEPT !.id = IdOf(StaticMarker \o order[i])]]

\* The records pushed for the upload directory read in the given order.
UploadRecords(fs, order) ==
  [i \in DOMAIN order |-> UploadedRecord(order[i], fs[Append(UPLOAD_DIR, order[i])])]

\* The records pushed for the static directory read in the given order:
\* only the names with an image extension.
RECURSIVE StaticRecords(_, _)
StaticRecords(fs, order) ==
  IF order = <<>> THEN <<>>
  ELSE (IF IsImageName(Head(order))
          THEN <<StaticRecord(Head(order), fs[Append(PUBLIC_DIR, Head(order))])>>
          ELSE <<>>) \o StaticRecords(fs, Tail(order))

\* The listing of a filesystem, its directories read in the given orders.
Listing(fs, uploadOrder, publicOrder) ==
  SortFiles(UploadRecords(fs, uploadOrder) \o StaticRecords(fs, publicOrder))

\* The entries of dist that the scan stats and keeps: those of an image's
\* name that are regular files.
StaticImages(fs) == {n \in RegularFiles(fs, PUBLIC_DIR) : IsImageName(n)}

\* A scan in which nothing were to throw.
ListThrowsNever(fs) == FALSE

\* The scan throws: readdirSync on a directory that exists and cannot be
\* read, statSync on an entry that cannot be stat-ed (every entry of the
\* upload directory, the entries of dist of an image's name).
ListThrows(fs) ==
  \/ /\ ExistsSync(fs, UPLOAD_DIR)
     /\ \/ env.upload = "unreadable"
        \/ \E n \in ReaddirSync(fs, UPLOAD_DIR) : StatThrows(Append(UPLOAD_DIR, n))
  \/ /\ ExistsSync(fs, PUBLIC_DIR)
     /\ \/ env.dist = "unreadable"
        \/ \E n \in ReaddirSync(fs, PUBLIC_DIR) :
             IsImageName(n) /\ StatThrows(Append(PUBLIC_DIR, n))

\* GET /api/files: the records of the regular files, in the order
\* readdirSync returns them in, sorted; the catch block when the scan throws.
List ==
  /\ Accepting
  /\ nreq' = nreq + 1
  /\ IF ListThrows(files)
       THEN resp' = Response(resp.n + 1, "list", 500, TRUE, "ListFailed", <<>>, <<>>,
                            NoRequest)
       ELSE \E uo \in Orders(RegularFiles(files, UPLOAD_DIR)),
               po \in Orders(StaticImages(files)) :
              resp' = Response(resp.n + 1, "list", 200, TRUE, "", <<>>,
                               Listing(files, uo, po), NoRequest)
  /\ UNCHANGED <<variant, overlap, files, clock, uploads, env, app>>

\* ---------------------------------------------------------------- time

\* Time passes.
Tick ==
  /\ clock < MaxClock
  /\ clock' = clock + 1
  /\ UNCHANGED <<variant, overlap, files, uploads, resp, nreq, env, app>>

\* --------------------------------------------------------- environment

\* The directories change under the running server, once.
Fault(e) ==
  /\ env = EnvOk
  /\ nreq < MaxRequests
  /\ nreq' = nreq + 1
  /\ env' = e
  /\ files' = FilesIn(files, e)
  /\ UNCHANGED <<variant, overlap, clock, uploads, resp, app>>

\* ----------------------------------------------------------------- App

\* A page is opened on the running server.
InitApp ==
  /\ InitServer
  /\ files = InitFiles
  /\ env = EnvOk
  /\ overlap = FALSE
  /\ \E strict \in BOOLEAN : app = AppMounted(strict)

serverVars == <<variant, overlap, files, clock, uploads, resp, nreq, env>>

\* startServer, with the status of the render it was made in: nothing when
\* that is RUNNING; else setStatus(RUNNING), a ping at once, and the two
\* setInterval calls whose ids go to the refs.
StartServer(a) ==
  IF a.closure = "RUNNING" THEN a
  ELSE [a EXCEPT !.status = "RUNNING",
                 !.pings = a.pings + 1,
                 !.keepAliveIntervalRef = a.nextId,
                 !.uptimeIntervalRef = a.nextId + 1,
                 !.intervals = a.intervals \cup {<<a.nextId, "pingServer">>,
                                                 <<a.nextId + 1, "uptime">>},
                 !.nextId = a.nextId + 2]

\* The cleanup the effect returns: clearInterval of what the refs hold.
EffectCleanup(a) ==
  [a EXCEPT !.intervals =
     {t \in a.intervals : t[1] \notin {a.keepAliveIntervalRef, a.uptimeIntervalRef}}]

\* The effect of [startServer, fetchFiles] runs: startServer(), fetchFiles().
RunEffect ==
  /\ app.effects # <<>> /\ Head(app.effects) = "effect"
  /\ app.closure = "RUNNING" \/ app.pings < MaxPings
  /\ app' = [StartServer(app) EXCEPT !.effects = Tail(app.effects),
                                     !.fetching = app.fetching + 1]
  /\ UNCHANGED serverVars

\* The cleanup of the previous run of the effect runs.
RunCleanup ==
  /\ app.effects # <<>> /\ Head(app.effects) = "cleanup"
  /\ app' = [EffectCleanup(app) EXCEPT !.effects = Tail(app.effects)]
  /\ UNCHANGED serverVars

\* App renders with the new status: useCallback makes a new startServer,
\* its dependency status having changed, and the effect, which depends on
\* startServer, is cleaned up and run again.
Render ==
  /\ app.mounted /\ app.effects = <<>>
  /\ app.status # app.closure
  /\ app' = [app EXCEPT !.closure = app.status, !.effects = <<"cleanup", "effect">>]
  /\ UNCHANGED serverVars

\* The keep-alive interval fires: pingServer sends a health request.
PingInterval ==
  /\ \E t \in app.intervals : t[2] = "pingServer"
  /\ app.pings < MaxPings
  /\ app' = [app EXCEPT !.pings = app.pings + 1]
  /\ UNCHANGED serverVars

\* The uptime interval fires: setUptime(prev => prev + 1).
UptimeInterval ==
  /\ \E t \in app.intervals : t[2] = "uptime"
  /\ app.uptime < MaxUptime
  /\ app' = [app EXCEPT !.uptime = app.uptime + 1]
  /\ UNCHANGED serverVars

\* A fetchFiles call ends: setIsLoading(false).
FetchFilesDone ==
  /\ app.fetching > 0
  /\ app' = [app EXCEPT !.fetching = app.fetching - 1, !.isLoading = FALSE]
  /\ UNCHANGED serverVars

\* The page is closed: the cleanup of the last effect runs.
Unmount ==
  /\ app.mounted /\ app.effects = <<>>
  /\ app' = [EffectCleanup(app) EXCEPT !.mounted = FALSE]
  /\ UNCHANGED serverVars

NextApp ==
  \/ RunEffect
  \/ RunCleanup
  \/ Render
  \/ PingInterval
  \/ UptimeInterval
  \/ FetchFilesDone
  \/ Unmount

\* The page, from its mount on.
SpecApp == InitApp /\ [][NextApp]_vars

\* ---------------------------------------------------------------- page

\* A new name typed into the card of an asset: one that leads out of the
\* upload directory to a path where nothing exists.
NameOutside == Str(<<".", ".", "/", "d", "i", "s", "t", "/">>) \o NameB

\* The new names the user types into the card of an asset.
PageNewNames == {NameA, NameNotes, NameOutside}

\* The page has handled every response and has no upload under way: the
\* user acts on what the page shows.
PageIdle ==
  /\ app.mounted
  /\ app.handled = resp.n
  /\ \A r \in Slots : uploads[r].pc = "idle"

\* fetchFiles: fetch('/api/files') reaches the server.
PageFetchFiles ==
  /\ PageIdle
  /\ app.fetching > 0
  /\ List

\* handleUpload: the file the user picked or dropped is posted.
PageUpload(u) ==
  /\ PageIdle
  /\ UploadBegin(1, u[1], u[2])

\* AssetCard.handleRename and App.handleRename: for an asset shown with
\* isUploaded, a new name that differs from the asset's and is not blank.
PageRename(e, newName) ==
  /\ PageIdle
  /\ e.isUploaded
  /\ newName # e.name /\ newName # <<>>
  /\ Rename(e.id, newName)

\* AssetCard.handleDelete and App.handleDelete, for an asset shown with
\* isUploaded.
PageDelete(e) ==
  /\ PageIdle
  /\ e.isUploaded
  /\ Delete(e.id)

\* prev.map(a => a.id === id ? data.file : a)
RECURSIVE MapReplace(_, _, _)
MapReplace(list, id, file) ==
  IF list = <<>> THEN <<>>
  ELSE <<IF Head(list).id = id THEN file ELSE Head(list)>>
         \o MapReplace(Tail(list), id, file)

\* prev.filter(a => a.id !== id)
RECURSIVE FilterOut(_, _)
FilterOut(list, id) ==
  IF list = <<>> THEN <<>>
  ELSE (IF Head(list).id # id THEN <<Head(list)>> ELSE <<>>) \o FilterOut(Tail(list), id)

\* The response arrives at the page: response.json() and, when data.success
\* holds, the setAssets of fetchFiles, handleUpload, handleRename or
\* handleDelete; a body that is no JSON throws into the catch block.
PageReceive ==
  LET ok == resp.json /\ resp.success
      assets ==
        IF ~ok THEN app.assets
        ELSE IF resp.op = "list" THEN resp.files
        ELSE IF resp.op = "upload" THEN <<resp.file[1]>> \o app.assets
        ELSE IF resp.op = "rename" THEN MapReplace(app.assets, resp.req.id, resp.file[1])
        ELSE FilterOut(app.assets, resp.req.id)
  IN
  /\ app.mounted
  /\ app.handled < resp.n
  /\ app' = [app EXCEPT !.handled = resp.n,
                        !.assets = assets,
                        !.fetching = IF resp.op = "list" THEN app.fetching - 1
                                     ELSE app.fetching,
                        !.isLoading = IF resp.op = "list" THEN FALSE ELSE app.isLoading]
  /\ UNCHANGED serverVars

NextPage ==
  \/ RunEffect
  \/ RunCleanup
  \/ Render
  \/ PageFetchFiles
  \/ \E u \in UploadInputs : PageUpload(u)
  \/ \E r \in Slots : UploadWrite(r)
  \/ \E r \in Slots : UploadAbort(r)
  \/ \E r \in Slots : UploadRespond(r)
  \/ \E i \in DOMAIN app.assets, newName \in PageNewNames :
       PageRename(app.assets[i], newName)
  \/ \E i \in DOMAIN app.assets : PageDelete(app.assets[i])
  \/ PageReceive
  \/ Tick

\* One page as the only client of the server.
SpecPage == InitApp /\ [][NextPage]_vars

\* ------------------------------------------------------- specification

Next ==
  \/ UploadNoFile
  \/ \E r \in Slots, u \in UploadInputs : UploadBegin(r, u[1], u[2])
  \/ \E r \in Slots : UploadWrite(r)
  \/ \E r \in Slots : UploadAbort(r)
  \/ \E r \in Slots : UploadRespond(r)
  \/ \E id \in Ids, newName \in NewNames : Rename(id, newName)
  \/ \E id \in Ids : Delete(id)
  \/ List
  \/ Tick

\* Clients that wait for each response before the next request.
Spec == Init /\ [][Next]_vars

\* Clients that send requests while uploads are in flight.
SpecOverlap == InitOverlap /\ [][Next]_vars

NextEnv ==
  \/ Next
  \/ \E e \in Environments : Fault(e)

\* The same clients as in Spec, and directories that change.
SpecEnv == Init /\ [][NextEnv]_vars

\* ---------------------------------------------------------- properties

\* The error kind of a response, by its status and error text.
ErrorKind(r) ==
  IF r.success THEN "none"
  ELSE IF ~r.json THEN "Unstructured"
  ELSE IF r.error \in {"NewNameRequired", "NoFileSelected", "OnlyImages", "FileTooLarge"}
    THEN "ValidationError"
  ELSE IF r.error = "FileNotFound" THEN "NotFound"
  ELSE IF r.error = "TargetExists" THEN "Conflict"
  ELSE IF r.error \in {"StaticRename", "StaticDelete"} THEN "Forbidden"
  ELSE "IOError"

\* This step sends the response to a request of one of the given kinds.
Answers(ops) == resp'.n = resp.n + 1 /\ resp'.op \in ops

\* The names of the upload directory and of the static directory.
UploadNames == RegularFiles(files, UPLOAD_DIR)
StaticNames == RegularFiles(files, PUBLIC_DIR)

\* C1: after any sequence of upload, rename and delete requests, with any
\* id and any newName, the static directory holds the same files with the
\* same content as at the start.
C1_StaticDirUntouched ==
  DirContent(files, PUBLIC_DIR) = DirContent(InitFiles, PUBLIC_DIR)

\* C2 as stated: every rename or delete whose id decodes to a name with the
\* static-file marker fails with Forbidden and changes no file.
C2_Original ==
  [][(Answers({"rename", "delete"})
        /\ StartsWith(NameOfId(resp'.req.id), StaticMarker))
      => (ErrorKind(resp') = "Forbidden" /\ files' = files)]_vars

\* C2 amended: a delete, or a rename with a non-empty newName, whose id
\* decodes to a name with the static-file marker fails with status 400 and
\* the static-file error text, which no ValidationError, NotFound or
\* Conflict response carries, and changes no file of either directory.
C2_StaticGuard ==
  [][(Answers({"rename", "delete"})
        /\ StartsWith(NameOfId(resp'.req.id), StaticMarker)
        /\ (resp'.op = "rename" => resp'.req.newName # <<>>))
      => /\ ~resp'.success /\ resp'.json /\ resp'.status = 400
         /\ resp'.error = (IF resp'.op = "rename" THEN "StaticRename" ELSE "StaticDelete")
         /\ ErrorKind(resp') = "Forbidden"
         /\ files' = files]_vars

\* C2's case: a rename with a newName was refused for the static marker
\* while the upload directory holds a file of that very name.
C2_Witness ==
  /\ resp.op = "rename" /\ resp.req.newName # <<>>
  /\ resp.error = "StaticRename"
  /\ NameOfId(resp.req.id) \in UploadNames

\* C3: a rename whose source exists in the upload directory and whose
\* newName names a file of the upload directory (the source itself
\* included) fails with Conflict and changes no file.
C3_RenameConflict ==
  [][(Answers({"rename"})
        /\ NameOfId(resp'.req.id) \in UploadNames
        /\ resp'.req.newName \in UploadNames)
      => (ErrorKind(resp') = "Conflict" /\ files' = files)]_vars

\* A name that path.join(UPLOAD_DIR, name) keeps directly inside the upload
\* directory.
InUploadDir(name) ==
  LET p == PathJoin(UPLOAD_DIR, name) IN p # <<>> /\ DirName(p) = UPLOAD_DIR

\* C4 as stated, its last part: after a successful rename of an
\* upload-directory asset, every rename or delete issued next with the old
\* id fails with NotFound.
C4_Original ==
  [][(/\ resp.op = "rename" /\ resp.success
      /\ InUploadDir(NameOfId(resp.req.id))
      /\ Answers({"rename", "delete"})
      /\ resp'.req.id = resp.req.id)
      => ErrorKind(resp') = "NotFound"]_vars

\* C4 amended: a successful rename of an upload-directory asset A to B
\* returns a record named B whose id differs from the old id and decodes to
\* B, the file at B has the bytes and size the file at A had, and A is
\* gone; a delete, or a rename with a non-empty newName, issued next with
\* the old id fails with NotFound.
C4_RenameChangesId ==
  [][/\ (Answers({"rename"}) /\ resp'.success /\ InUploadDir(NameOfId(resp'.req.id)))
        => LET oldPath == PathJoin(UPLOAD_DIR, NameOfId(resp'.req.id))
               newPath == PathJoin(UPLOAD_DIR, resp'.req.newName)
               rec == resp'.file[1]
           IN /\ rec.name = resp'.req.newName
              /\ rec.id # resp'.req.id
              /\ NameOfId(rec.id) = resp'.req.newName
              /\ oldPath \in DOMAIN files /\ oldPath \notin DOMAIN files'
              /\ newPath \in DOMAIN files' /\ newPath \notin DOMAIN files
              /\ files'[newPath].bytes = files[oldPath].bytes
              /\ rec.size = files[oldPath].bytes.len
              /\ rec.isUploaded
     /\ (/\ resp.op = "rename" /\ resp.success
         /\ InUploadDir(NameOfId(resp.req.id))
         /\ Answers({"rename", "delete"})
         /\ resp'.req.id = resp.req.id
         /\ (resp'.op = "rename" => resp'.req.newName # <<>>))
        => ErrorKind(resp') = "NotFound"]_vars

\* C4's case: b.png was renamed to a.png, and the delete issued next with
\* the id of b.png found no file.
C4_Witness ==
  /\ resp.op = "delete" /\ resp.req.id = IdOf(NameB)
  /\ ErrorKind(resp) = "NotFound"
  /\ NameA \in UploadNames /\ NameB \notin UploadNames
  /\ files[Append(UPLOAD_DIR, NameA)] = InitFiles[Append(UPLOAD_DIR, NameB)]

\* The entries of a listing.
Entries(list) == {list[i] : i \in DOMAIN list}

\* C5: a successful delete of an upload-directory asset removes exactly
\* that file and leaves every other file as it was; every listing holds
\* exactly the files of the upload directory (and the images of the static
\* directory) with their names, sizes and ids, so that the deleted file is
\* in no listing until a file of its name exists again, and the listing
\* taken right after the delete does not hold it.
C5_DeleteRemovesExactly ==
  [][/\ (Answers({"delete"}) /\ resp'.success /\ InUploadDir(NameOfId(resp'.req.id)))
        => LET p == PathJoin(UPLOAD_DIR, NameOfId(resp'.req.id)) IN
           /\ p \in DOMAIN files
           /\ DOMAIN files' = DOMAIN files \ {p}
           /\ \A q \in DOMAIN files' : files'[q] = files[q]
     /\ Answers({"list"})
        => /\ resp'.success
           /\ {e.name : e \in {x \in Entries(resp'.files) : x.isUploaded}} = UploadNames
           /\ {e.name : e \in {x \in Entries(resp'.files) : ~x.isUploaded}}
                = {n \in StaticNames : IsImageName(n)}
           /\ \A e \in Entries(resp'.files) :
                IF e.isUploaded
                  THEN /\ e.size = files[Append(UPLOAD_DIR, e.name)].bytes.len
                       /\ NameOfId(e.id) = e.name
                  ELSE /\ e.size = files[Append(PUBLIC_DIR, e.name)].bytes.len
                       /\ NameOfId(e.id) = StaticMarker \o e.name
     /\ (/\ resp.op = "delete" /\ resp.success
         /\ InUploadDir(NameOfId(resp.req.id))
         /\ Answers({"list"}))
        => LET p == PathJoin(UPLOAD_DIR, NameOfId(resp.req.id)) IN
           \A e \in Entries(resp'.files) : e.isUploaded => e.name # p[Len(p)]]_vars

\* C5's case: b.png was deleted, and the listing taken next holds the
\* static images only.
C5_Witness ==
  /\ resp.op = "list" /\ nreq = 2
  /\ UploadNames = {}
  /\ {e.name : e \in Entries(resp.files)} = {NameA, NameUpper}
  /\ \A e \in Entries(resp.files) : ~e.isUploaded

\* C6: the listing taken right after a successful upload holds an entry
\* with the name and the id of the record the upload returned, the size of
\* the bytes uploaded, and isUploaded true.
C6_UploadListed ==
  [][(resp.op = "upload" /\ resp.success /\ Answers({"list"}))
      => \E e \in Entries(resp'.files) :
           /\ e.name = resp.file[1].name
           /\ e.id = resp.file[1].id
           /\ e.size = resp.req.bytes.len
           /\ e.isUploaded]_vars

\* C6's case: a listing that follows the upload of public_a.png.
C6_Witness ==
  /\ resp.op = "list"
  /\ \E e \in Entries(resp.files) : e.isUploaded /\ e.name = NamePublicA /\ e.size > 0

\* C7: an upload whose MIME type is not in the allow-list never gets past
\* the filter to the storage, and is not answered with success.
C7_NonImageRejected ==
  /\ \A r \in Slots : uploads[r].pc # "idle" => uploads[r].mimetype \in AllowedTypes
  /\ (resp.op = "upload" /\ resp.success) => resp.req.mimetype \in AllowedTypes

\* What C8 says of two successive uploads, the first answered by r1 and the
\* second by r2, with the files fs they leave.
TwoDistinctEntries(r1, r2, fs) ==
  LET declared == r1.req.declared
      ext == ExtName(declared)
      first == r1.file[1].name
      second == r2.file[1].name
  IN /\ first = declared
     /\ second = BaseName(declared, ext) \o <<CodeOf["_"]>> \o Digits(r2.req.now) \o ext
     /\ first # second
     /\ Append(UPLOAD_DIR, first) \in DOMAIN fs
     /\ Append(UPLOAD_DIR, second) \in DOMAIN fs
     /\ fs[Append(UPLOAD_DIR, first)].bytes = r1.req.bytes
     /\ fs[Append(UPLOAD_DIR, second)].bytes = r2.req.bytes

C9_ConcurrentUploadsDistinct ==
  \A r1, r2 \in Slots :
    (/\ r1 # r2
     /\ uploads[r1].pc = "written" /\ uploads[r2].pc = "written"
     /\ uploads[r1].declared = uploads[r2].declared
     /\ uploads[r1].now # uploads[r2].now)
    => /\ uploads[r1].filename # uploads[r2].filename
       /\ \A r \in {r1, r2} :
            LET p == PathJoin(UPLOAD_DIR, uploads[r].filename) IN
            p \in DOMAIN files /\ files[p].bytes = uploads[r].bytes

\* C10: the entries of a listing are in descending order of modifiedAt,
\* whichever directory each comes from.
C10_ListSorted ==
  resp.op = "list" =>
    \A i \in 1..(Len(resp.files) - 1) :
      resp.files[i].modifiedAt >= resp.files[i + 1].modifiedAt

\* C10's case: a listing of three entries of both directories, an upload
\* newer than the static image and one older.
C10_Witness ==
  /\ resp.op = "list" /\ Len(resp.files) >= 3
  /\ \E e1, e2, e3 \in Entries(resp.files) :
       /\ e1.isUploaded /\ ~e2.isUploaded /\ e3.isUploaded
       /\ e1.modifiedAt > e2.modifiedAt /\ e2.modifiedAt > e3.modifiedAt

\* The names of the regular files directly inside a directory.
FilesOf(dir) == {p[Len(p)] : p \in {q \in DOMAIN files : q # <<>> /\ DirName(q) = dir}}

\* A name that ends in '.' and an image extension, in any case of letters.
HasImageExtension(name) ==
  \E e \in ImageExts :
    /\ Len(name) >= Len(e)
    /\ ToLower(SubSeq(name, Len(name) - Len(e) + 1, Len(name))) = e

\* The (name, isUploaded) pairs a listing is to hold: every regular file of
\* the upload directory, every regular file of the static directory with an
\* image extension.
ExpectedAssets ==
  {<<n, TRUE>> : n \in FilesOf(UPLOAD_DIR)}
    \cup {<<n, FALSE>> : n \in {m \in FilesOf(PUBLIC_DIR) : HasImageExtension(m)}}

\* C11: a successful listing holds exactly one entry for every regular file
\* of the upload directory, whatever its extension, with isUploaded true,
\* and one for every regular file of the static directory whose name ends
\* in an image extension, with isUploaded false; no entry is a directory,
\* and no static entry has another extension.
C11_ListContents ==
  [][(Answers({"list"}) /\ resp'.success)
      => /\ {<<e.name, e.isUploaded>> : e \in Entries(resp'.files)} = ExpectedAssets
         /\ Len(resp'.files) = Cardinality(ExpectedAssets)
         /\ \A e \in Entries(resp'.files) :
              /\ Append(IF e.isUploaded THEN UPLOAD_DIR ELSE PUBLIC_DIR, e.name) \notin Dirs
              /\ ~e.isUploaded => HasImageExtension(e.name)]_vars

\* C11's case: a listing that holds an upload named .txt and a static .PNG,
\* and neither index.html nor the directories tmp and x.svg.
C11_Witness ==
  /\ resp.op = "list" /\ resp.success
  /\ {UploadSubDir, PublicSubDir} \subseteq Dirs
  /\ NameIndex \in StaticNames
  /\ \E e \in Entries(resp.files) : e.isUploaded /\ e.name = NameNotes
  /\ \E e \in Entries(resp.files) : ~e.isUploaded /\ e.name = NameUpper
  /\ Len(resp.files) = 3

\* A directory exists and cannot be read, or holds an entry (one of those
\* given) that cannot be stat-ed.
Unscannable(dir, mode, entries) ==
  /\ mode # "missing"
  /\ \/ mode = "unreadable"
     \/ \E l \in env.dangling : DirName(l) = dir /\ l[Len(l)] \in entries

\* What C12 says of the answer to a list request, the entries of the
\* static directory that count being those given.
ListAnswer(r, staticEntries) ==
  IF \/ Unscannable(UPLOAD_DIR, env.upload, ReaddirSync(files, UPLOAD_DIR))
     \/ Unscannable(PUBLIC_DIR, env.dist, staticEntries)
    THEN /\ ~r.success /\ r.json /\ r.error # "" /\ r.status >= 400
         /\ r.files = <<>>
    ELSE /\ r.success
         /\ {<<e.name, e.isUploaded>> : e \in Entries(r.files)} = ExpectedAssets
         /\ env.upload = "missing" => \A e \in Entries(r.files) : ~e.isUploaded
         /\ env.dist = "missing" => \A e \in Entries(r.files) : e.isUploaded
         /\ (env.upload = "missing" /\ env.dist = "missing") => r.files = <<>>

\* C12 as stated: a list request succeeds with the assets of the
\* directories that exist, a missing one counting as empty; it fails, with
\* no list, when a directory exists and cannot be read or any entry of it
\* cannot be stat-ed.
C12_Original ==
  [][Answers({"list"}) => ListAnswer(resp', ReaddirSync(files, PUBLIC_DIR))]_vars

\* C12 amended: the same, the entries of the static directory that make
\* the request fail being those with an image extension only.
C12_MissingOrUnreadable ==
  [][Answers({"list"})
      => ListAnswer(resp', {n \in ReaddirSync(files, PUBLIC_DIR) : HasImageExtension(n)})]_vars

\* C12's case: a list request that failed on the link l.png of the static
\* directory, both directories being there and readable.
C12_Witness ==
  /\ resp.op = "list" /\ ~resp.success /\ resp.status = 500
  /\ env.upload = "ok" /\ env.dist = "ok"
  /\ env.dangling = {Append(PUBLIC_DIR, NameLink \o PngExt)}

\* The asset records of a response: the file of an upload or a rename, the
\* files of a listing.
Reported(r) == Entries(r.file) \cup Entries(r.files)

\* C13: the id of every record that a list, an upload or a rename reports
\* decodes to exactly the record's file name for an upload-directory asset,
\* and to the static marker followed by the file name for a static asset.
C13_IdReversible ==
  (resp.op \in {"list", "upload", "rename"} /\ resp.success)
    => \A e \in Reported(resp) :
         NameOfId(e.id) = (IF e.isUploaded THEN e.name ELSE StaticMarker \o e.name)

\* C13's case: a listing with an upload and a static image whose names have
\* characters of two and three UTF-8 bytes.
C13_Witness ==
  /\ resp.op = "list" /\ resp.success
  /\ \E e \in Reported(resp) :
       e.isUploaded /\ e.name = NameUnicode /\ Len(Utf8Encode(e.name)) = Len(e.name) + 3
  /\ \E e \in Reported(resp) : ~e.isUploaded /\ e.name = NameUpper

\* C14: every request that is answered without success is answered with a
\* JSON payload {success: false, error} and a status of 400 or more.
C14_StructuredErrors ==
  (resp.op # "none" /\ ~resp.success)
    => (resp.json /\ resp.error # "" /\ resp.status >= 400)

\* C16: a rename request is answered with the first failure that applies,
\* in the order ValidationError (newName missing or empty), Forbidden (the
\* decoded name carries the static marker), NotFound (no file of the
\* decoded name in the upload directory), Conflict (something exists at
\* newName), each leaving every file as it was; files change only when
\* none applies.
C16_RenameFailureOrder ==
  [][Answers({"rename"})
      => LET oldName == NameOfId(resp'.req.id)
             newName == resp'.req.newName
             Failed(kind) == ErrorKind(resp') = kind /\ files' = files
         IN IF newName = <<>> THEN Failed("ValidationError")
            ELSE IF StartsWith(oldName, StaticMarker) THEN Failed("Forbidden")
            ELSE IF oldName \notin FilesOf(UPLOAD_DIR) THEN Failed("NotFound")
            ELSE IF PathJoin(UPLOAD_DIR, newName) \in DOMAIN files \cup Dirs
              THEN Failed("Conflict")
            ELSE resp'.success => files' # files]_vars

\* C17: no two entries of a listing have the same id.
C17_UniqueIds ==
  resp.op = "list" =>
    \A i, j \in DOMAIN resp.files : i # j => resp.files[i].id # resp.files[j].id

\* The records with isUploaded true that a listing taken now reports.
ListedUploads ==
  {UploadedRecord(n, files[Append(UPLOAD_DIR, n)]) : n \in UploadNames}

\* C18: a delete request with the id a listing reports for an asset with
\* isUploaded true succeeds and removes that file, and a rename request
\* with that id and a newName that nothing exists at succeeds.
C18_ListedUploadsMutable ==
  [][\A e \in ListedUploads :
       /\ (Answers({"delete"}) /\ resp'.req.id = e.id)
            => (resp'.success /\ Append(UPLOAD_DIR, e.name) \notin DOMAIN files')
       /\ (/\ Answers({"rename"}) /\ resp'.req.id = e.id
           /\ resp'.req.newName # <<>>
           /\ InUploadDir(resp'.req.newName)
           /\ ~ExistsSync(files, PathJoin(UPLOAD_DIR, resp'.req.newName)))
            => resp'.success]_vars

\* C19: the write of an accepted upload goes to a path at which no file
\* exists, so that it adds one file and leaves every other as it was.
C19_UploadNeverOverwrites ==
  [][\A r \in Slots :
       (uploads[r].pc = "writing" /\ uploads'[r].pc \in {"written", "aborting"})
         => LET p == PathJoin(UPLOAD_DIR, uploads[r].filename) IN
            /\ p \notin DOMAIN files
            /\ DOMAIN files' = DOMAIN files \cup {p}
            /\ \A q \in DOMAIN files : files'[q] = files[q]]_vars

\* The paths at which a step creates, removes or changes a file.
Touched ==
  {p \in DOMAIN files \cup DOMAIN files' :
     p \notin DOMAIN files \/ p \notin DOMAIN files' \/ files'[p] # files[p]}

\* C20: a rename or a delete creates, removes and changes files directly
\* inside the upload directory only, whatever the id and the newName.
C20_MutationsConfined ==
  [][Answers({"rename", "delete"})
      => \A p \in Touched : Len(p) = 2 /\ DirName(p) = UPLOAD_DIR]_vars

\* The page is mounted and no render, cleanup or effect is pending.
AppSettled == app.mounted /\ app.effects = <<>> /\ app.closure = app.status

\* C15: whenever the mounted page has settled with status RUNNING, the
\* interval that keepAliveIntervalRef holds is active with pingServer as
\* its callback.
C15_KeepAliveActive ==
  (AppSettled /\ app.status = "RUNNING")
    => <<app.keepAliveIntervalRef, "pingServer">> \in app.intervals

\* The (id, name) pairs of the entries a listing taken now returns.
ServerAssets ==
  {<<IdOf(n), n>> : n \in UploadNames}
    \cup {<<IdOf(StaticMarker \o n), n>> : n \in StaticImages(files)}

\* C21: once the page has handled its first listing, and whenever it has
\* handled the response to every request it sent, the assets it holds are
\* exactly those a listing returns: the same ids and names, and as many.
C21_ClientListMatchesServer ==
  (PageIdle /\ ~app.isLoading)
    => /\ {<<a.id, a.name>> : a \in Entries(app.assets)} = ServerAssets
       /\ Len(app.assets) = Cardinality(ServerAssets)

====
